---- MODULE Spec2Model ----
(***************************************************************************)
(* demo-node-app: an Express service in front of three backing stores      *)
(* (S3 object storage, Postgres, Redis).  The model covers the process     *)
(* start-up, the authentication gate, the readiness probe, the CRUD        *)
(* passthrough routes and the self-test routine of src/server.ts together  *)
(* with the store wrappers of lib/aws.ts, lib/db.ts and lib/redis.ts.      *)
(*                                                                         *)
(* Strings the code parses (the Authorization header, the token query      *)
(* parameter, the shared secret) are sequences of one-character strings.   *)
(* Every await on a backing store is one step of the model.                *)
(***************************************************************************)
EXTENDS Integers, Sequences, FiniteSets, TLC

VARIABLES
    cfg,      \* process configuration read from the environment at load time
    up,       \* reachability of each backing store (the environment)
    phase,    \* position of start(): waitpg, migrate, waits3, listening, exited, crashed
    attempt,  \* loop counter of the start-up polling loops
    now,      \* the clock read by Date.now()
    s3,       \* objects of the bucket: key -> text
    db,       \* rows of table items: id -> [name, value, created_at]
    cache,    \* redis keys: key -> string
    rstatus,  \* redis.status of the shared ioredis client
    http,     \* the HTTP request being served and its response
    rz,       \* locals of the /readyz handler
    st,       \* the runSelfTest invocations: boot (fire-and-forget) and http (GET /selftest)
    pool      \* clients of the pg pool checked out and not released

vars == <<cfg, up, phase, attempt, now, s3, db, cache, rstatus, http, rz, st, pool>>

-----------------------------------------------------------------------------
(* Bounds of the model *)

\* the clock takes the values 0..MaxClock
MaxClock == 1

-----------------------------------------------------------------------------
(* Strings *)

Bearer_ == <<"B", "e", "a", "r", "e", "r", " ">>
hunter2 == <<"h", "u", "n", "t", "e", "r", "2">>
demo == <<"d", "e", "m", "o">>
alice == <<"a", "l", "i">>
nope == <<"n", "o">>

\* String.prototype.startsWith
startsWith(s, p) == Len(s) >= Len(p) /\ SubSeq(s, 1, Len(p)) = p

\* String.prototype.slice(from) and slice(from, to), 0-based, to exclusive
sliceFrom(s, from) == SubSeq(s, from + 1, Len(s))
slice(s, from, to) == SubSeq(s, from + 1, to)

\* String.prototype.includes, for a one-character needle
includes(s, c) == \E i \in 1..Len(s) : s[i] = c

\* String.prototype.indexOf: the first occurrence instead of the last
firstIndexOf(s, c) ==
    IF includes(s, c)
    THEN (CHOOSE i \in 1..Len(s) : s[i] = c /\ \A j \in 1..(i - 1) : s[j] # c) - 1
    ELSE -1

\* String.prototype.lastIndexOf, 0-based, -1 when absent
lastIndexOf(s, c) ==
    IF includes(s, c)
    THEN (CHOOSE i \in 1..Len(s) : s[i] = c /\ \A j \in (i + 1)..Len(s) : s[j] # c) - 1
    ELSE -1

\* String.prototype.trim
RECURSIVE trimStart(_)
trimStart(s) == IF s # <<>> /\ Head(s) = " " THEN trimStart(Tail(s)) ELSE s
RECURSIVE trimEnd(_)
trimEnd(s) == IF s # <<>> /\ s[Len(s)] = " " THEN trimEnd(SubSeq(s, 1, Len(s) - 1)) ELSE s
trim(s) == trimEnd(trimStart(s))

\* a sequence of characters as one string value
RECURSIVE Join(_)
Join(s) == IF s = <<>> THEN "" ELSE Head(s) \o Join(Tail(s))

\* an optional string: a header, a query parameter or an environment variable
Unset == [set |-> FALSE, val |-> <<>>]
Str(s) == [set |-> TRUE, val |-> s]
\* JavaScript truthiness of an optional string
truthy(o) == o.set /\ o.val # <<>>

\* an optional value whose text is not parsed: a body property, a result or null
Null == [set |-> FALSE, val |-> ""]
Some(v) == [set |-> TRUE, val |-> v]
nonEmpty(o) == o.set /\ o.val # ""

-----------------------------------------------------------------------------
(* Configuration: server.ts 14-20 *)

\* process.env.APP_AUTH_SECRET || 'hunter2'
APP_AUTH_SECRET_of(env) == IF truthy(env) THEN env.val ELSE hunter2

APP_AUTH_SECRET == cfg.secret
S3_BUCKET == cfg.bucket
READYZ_PUBLIC == cfg.readyzPublic
SELF_TEST_ON_BOOT == cfg.selfTestOnBoot

Configs(secretEnvs, buckets, publics, boots) ==
    { [secret |-> APP_AUTH_SECRET_of(e), bucket |-> b, readyzPublic |-> p,
       selfTestOnBoot |-> t] :
        e \in secretEnvs, b \in buckets, p \in publics, t \in boots }

-----------------------------------------------------------------------------
(* Requests *)

NoBody == [none |-> TRUE]
NoReq == [method |-> "", path |-> "", id |-> "", authorization |-> Unset,
          token |-> Unset, body |-> NoBody]
Header(s) == [set |-> TRUE, val |-> s]

Req(method, path, id, authorization, token, body) ==
    [method |-> method, path |-> path, id |-> id, authorization |-> authorization,
     token |-> token, body |-> body]

\* the files express.static finds under public/
StaticFiles == {"/robots.txt", "/favicon.ico"}

\* /readyz is public whatever READYZ_PUBLIC says
isPublicPathReadyz(req) ==
    \/ req.path \in {"/healthz", "/robots.txt", "/favicon.ico", "/readyz"}
    \/ (req.method = "GET" /\ req.path = "/")

\* server.ts 84-91
isPublicPath(req) ==
    \/ req.path = "/healthz"
    \/ req.path = "/robots.txt"
    \/ req.path = "/favicon.ico"
    \/ (READYZ_PUBLIC /\ req.path = "/readyz")
    \/ (req.method = "GET" /\ req.path = "/")

\* server.ts 103-105: the token query parameter
queryTokenOk(req) == truthy(req.token) /\ req.token.val = APP_AUTH_SECRET

\* server.ts 108-110: Authorization: Bearer <token>
bearerOk(authHeader) == trim(sliceFrom(authHeader, 7)) = APP_AUTH_SECRET

\* server.ts 111-119: Authorization: <user>:<secret>
basicOk(authHeader) ==
    sliceFrom(authHeader, lastIndexOf(authHeader, ":") + 1) = APP_AUTH_SECRET
basicUser(authHeader) == slice(authHeader, 0, lastIndexOf(authHeader, ":"))

\* server.ts 107-120: what the Authorization header contributes
headerAuth(req) ==
    LET authHeader == req.authorization.val IN
    IF ~truthy(req.authorization) THEN [authorized |-> FALSE, username |-> ""]
    ELSE IF startsWith(authHeader, Bearer_)
         THEN [authorized |-> bearerOk(authHeader), username |-> ""]
    ELSE IF includes(authHeader, ":")
         THEN IF basicOk(authHeader)
              THEN [authorized |-> TRUE, username |-> Join(basicUser(authHeader))]
              ELSE [authorized |-> FALSE, username |-> ""]
    ELSE [authorized |-> FALSE, username |-> ""]

\* server.ts 93-129: next |-> TRUE when the middleware calls next(); user is
\* req.user.username (empty when the middleware does not set it)
authMiddleware(req) ==
    IF isPublicPath(req) THEN [next |-> TRUE, status |-> 0, user |-> ""]
    ELSE LET h == IF queryTokenOk(req) THEN [authorized |-> TRUE, username |-> ""]
                  ELSE headerAuth(req)
         IN IF ~h.authorized
            THEN [next |-> FALSE, status |-> 401, user |-> ""]
            ELSE [next |-> TRUE, status |-> 0,
                  user |-> IF h.username # "" THEN h.username ELSE "loftwah"]

\* (req as any).user?.username || 'loftwah', as the handlers read it
userOf(u) == IF u # "" THEN u ELSE "loftwah"

-----------------------------------------------------------------------------
(* The response of a request *)

Idle == [stage |-> "idle", req |-> NoReq, user |-> "", status |-> 0, body |-> NoBody]

\* the request passed the middlewares; its route handler has not run yet
Routed(req, user) ==
    [stage |-> "route", req |-> req, user |-> user, status |-> 0, body |-> NoBody]

\* res.status(status).json(body) / send(body): the response is sent
Sent(h, status, body) == [h EXCEPT !.stage = "done", !.status = status, !.body = body]

\* the async handler rejected: nothing catches it and no response is sent
Escaped(h, message) ==
    [h EXCEPT !.stage = "escaped", !.status = 0, !.body = [error |-> message]]

Json(o) == [json |-> o]
Text(t) == [text |-> t]
ErrorBody(m) == Json([error |-> m])

-----------------------------------------------------------------------------
(* The backing stores and their wrappers *)

Stores == {"s3", "db", "redis"}

\* the pool of identifiers randomUUID draws from
NumUuids == 2
Uuids == { ToString(n) : n \in 1..NumUuids }

Empty == [k \in {} |-> ""]
Put(f, k, v) == [x \in DOMAIN f \cup {k} |-> IF x = k THEN v ELSE f[x]]
Remove(f, k) == [x \in DOMAIN f \ {k} |-> f[x]]

\* Date.now() and new Date().toISOString() as text
Stamp == ToString(now)

\* `app/${id}.txt`
S3Key(id) == "app/" \o id \o ".txt"

\* part_000 284-291 (lib/aws.ts): HeadBucket, any error is false
checkS3(bucket) == up.s3

\* the stored text is returned although the store cannot be reached
getS3TextUnfailing(bucket, key) == IF key \in DOMAIN s3 THEN Some(s3[key]) ELSE Null

\* an empty object is taken for a missing one
getS3TextFalsy(bucket, key) ==
    IF up.s3 /\ key \in DOMAIN s3 /\ s3[key] # "" THEN Some(s3[key]) ELSE Null

\* part_000 304-316 (lib/aws.ts): any error of the get is null
getS3Text(bucket, key) == IF up.s3 /\ key \in DOMAIN s3 THEN Some(s3[key]) ELSE Null

\* part_000 348-357 (lib/db.ts): connect and SELECT 1, any error is false
checkDb == up.db

\* part_000 343 (lib/db.ts): max of the pool
poolMax == 10

\* part_000 350: pool.connect() hands out a client when the database answers and the
\* pool has one left (it times out otherwise)
poolConnects == up.db /\ pool < poolMax

\* part_000 351-355: the pool after the query of checkDb: client.release() follows
\* the query inside the try, so a query that throws skips it
checkDbQuery(ok) == IF ok THEN pool - 1 ELSE pool

\* the read answers a row whether or not there is one
getItemAnyway(id) == Some("")

\* part_000 398-403 (lib/db.ts): rows[0] || null
getItem(id) == IF id \in DOMAIN db THEN Some(db[id]) ELSE Null

\* part_000 405-411 (lib/db.ts): INSERT ... RETURNING; created_at defaults to now()
createItem(id, name, value) ==
    [id |-> id, name |-> name, value |-> value, created_at |-> Stamp]

\* part_000 413-419 (lib/db.ts): UPDATE ... SET name, value
updateItem(id, name, value) == [db[id] EXCEPT !.name = name, !.value = value]

\* the delete answers true whatever it removed
deleteItemAlways(id) == TRUE

\* part_000 421-424 (lib/db.ts): rowCount > 0
deleteItem(id) == id \in DOMAIN db

\* server.ts 318, lib/redis.ts 29-31: connect() when the connection has ended, then
\* the command; the status the client is left in
redisAfterCall == IF up.redis THEN "ready" ELSE IF rstatus = "end" THEN "end" ELSE "reconnecting"

\* lib/redis.ts 27-37: PING, any error is false
checkRedis == up.redis

\* connect() is called before every operation, whatever the status
needsConnectAlways == TRUE

\* server.ts 318, lib/redis.ts 29: !redis.status || redis.status === 'end'
needsConnect == rstatus = "end"

\* lib/redis.ts 30: redis.connect() rejects at once on a client that is connecting
\* or connected, and otherwise starts to connect
connectAccepted == rstatus \notin {"connecting", "ready"}
AlreadyConnecting == "Redis is already connecting/connected"

S3Error == "s3 request failed"
DbError == "db query failed"
DbDuplicate == "duplicate key value violates unique constraint"
RedisError == "redis command failed"
ConnectError == "redis connect failed"

-----------------------------------------------------------------------------
(* Initial state: the module has been loaded, start() has been called *)

Runs == {"boot", "http"}

\* server.ts 405-409
FreshResult == [s3 |-> [ok |-> FALSE], db |-> [ok |-> FALSE], redis |-> [ok |-> FALSE]]

IdleRun == [pc |-> "idle", s3Key |-> "", body |-> "", id |-> "", value |-> "",
            rKey |-> "", val1 |-> "", result |-> FreshResult, calls |-> <<>>]

NoReadyz == [pc |-> "idle", s3Ok |-> FALSE, dbOk |-> FALSE, redisOk |-> FALSE,
             probed |-> {}]

InitWith(configs) ==
    /\ cfg \in configs
    /\ up \in [Stores -> BOOLEAN]
    /\ phase = "waitpg"
    /\ attempt = 1
    /\ now = 0
    /\ s3 = Empty
    /\ db = Empty
    /\ cache = Empty
    /\ rstatus = "wait"
    /\ http = Idle
    /\ rz = NoReadyz
    /\ st = [r \in Runs |-> IdleRun]
    /\ pool = 0

-----------------------------------------------------------------------------
(* The environment *)

\* a backing store becomes unreachable; an established redis connection is lost
Fail(s) ==
    /\ up[s]
    /\ up' = [up EXCEPT ![s] = FALSE]
    /\ rstatus' \in IF s = "redis" /\ rstatus = "ready" THEN {"reconnecting", "end"}
                    ELSE {rstatus}
    /\ UNCHANGED <<cfg, phase, attempt, now, s3, db, cache, http, rz, st, pool>>

\* a backing store becomes reachable again
Recover(s) ==
    /\ ~up[s]
    /\ up' = [up EXCEPT ![s] = TRUE]
    /\ UNCHANGED <<cfg, phase, attempt, now, s3, db, cache, rstatus, http, rz, st, pool>>

\* a millisecond passes
Tick ==
    /\ now < MaxClock
    /\ now' = now + 1
    /\ UNCHANGED <<cfg, up, phase, attempt, s3, db, cache, rstatus, http, rz, st, pool>>

-----------------------------------------------------------------------------
(* Start-up: server.ts 347-395 *)

maxAttempts == 20
s3Attempts == 20

\* the poll of the database goes on without a bound
WaitForPostgresUnbounded ==
    /\ phase = "waitpg"
    /\ IF checkDb THEN phase' = "migrate" /\ attempt' = 1
       ELSE phase' = phase /\ attempt' = attempt + 1
    /\ UNCHANGED <<cfg, up, now, s3, db, cache, rstatus, http, rz, st, pool>>

\* server.ts 347-355 and 358-359: poll checkDb; exit(1) when every attempt failed
WaitForPostgres ==
    /\ phase = "waitpg"
    /\ IF checkDb THEN phase' = "migrate" /\ attempt' = 1
       ELSE IF attempt < maxAttempts THEN phase' = phase /\ attempt' = attempt + 1
       ELSE phase' = "exited" /\ attempt' = attempt
    /\ UNCHANGED <<cfg, up, now, s3, db, cache, rstatus, http, rz, st, pool>>

\* server.ts 349 and part_000 350: checkDb awaits pool.connect()
WaitForPostgresConnect ==
    /\ phase = "waitpg"
    /\ IF poolConnects THEN pool' = pool + 1 /\ phase' = "waitpgquery" /\ attempt' = attempt
       ELSE /\ pool' = pool
            /\ IF attempt < maxAttempts THEN phase' = phase /\ attempt' = attempt + 1
               ELSE phase' = "exited" /\ attempt' = attempt
    /\ UNCHANGED <<cfg, up, now, s3, db, cache, rstatus, http, rz, st>>

\* server.ts 349-350 and part_000 351-356: checkDb awaits the query
WaitForPostgresQuery ==
    /\ phase = "waitpgquery"
    /\ pool' = checkDbQuery(up.db)
    /\ IF up.db THEN phase' = "migrate" /\ attempt' = 1
       ELSE IF attempt < maxAttempts THEN phase' = "waitpg" /\ attempt' = attempt + 1
       ELSE phase' = "exited" /\ attempt' = attempt
    /\ UNCHANGED <<cfg, up, now, s3, db, cache, rstatus, http, rz, st>>

\* server.ts 360 and part_000 359-382: a failing migrate rejects start(), exit(1)
Migrate ==
    /\ phase = "migrate"
    /\ phase' = IF ~poolConnects THEN "exited"
                ELSE IF S3_BUCKET # "" THEN "waits3" ELSE "listen"
    /\ UNCHANGED <<cfg, up, attempt, now, s3, db, cache, rstatus, http, rz, st, pool>>

\* the wait for the bucket is fatal when every attempt failed
WaitForS3Fatal ==
    /\ phase = "waits3"
    /\ IF checkS3(S3_BUCKET) THEN phase' = "listen" /\ attempt' = 1
       ELSE IF attempt < s3Attempts THEN phase' = phase /\ attempt' = attempt + 1
       ELSE phase' = "exited" /\ attempt' = attempt
    /\ UNCHANGED <<cfg, up, now, s3, db, cache, rstatus, http, rz, st, pool>>

\* server.ts 361-368: best-effort wait for the bucket
WaitForS3 ==
    /\ phase = "waits3"
    /\ IF checkS3(S3_BUCKET) THEN phase' = "listen" /\ attempt' = 1
       ELSE IF attempt < s3Attempts THEN phase' = phase /\ attempt' = attempt + 1
       ELSE phase' = "listen" /\ attempt' = 1
    /\ UNCHANGED <<cfg, up, now, s3, db, cache, rstatus, http, rz, st, pool>>

-----------------------------------------------------------------------------
(* runSelfTest: server.ts 404-485.  calls lists the store calls the run has issued *)

Running == phase = "listening"

\* randomUUID never returns an identifier in use
FreshId(u) == u \notin DOMAIN db /\ \A r \in Runs : st[r].id # u
RedisKey(u) == "selftest:" \o u
FreshKey(u) == RedisKey(u) \notin DOMAIN cache /\ \A r \in Runs : st[r].rKey # RedisKey(u)

\* server.ts 438-443: the run reaches the relational sequence
EnterDb(run, u) ==
    [run EXCEPT !.pc = "dbcreate", !.id = u, !.value = "{hello:loftwah,ts:" \o Stamp \o "}",
                !.calls = Append(@, "db.create")]

\* server.ts 464-469: the run reaches the cache sequence
EnterRedis(run, u) ==
    [run EXCEPT !.pc = "rset", !.rKey = RedisKey(u), !.val1 = "hi-" \o Stamp,
                !.calls = Append(@, "redis.set")]

\* the cache sequence fails without recording why
\* (RedisFailedSilently); server.ts 427-428, 456-457, 478-479: the catch blocks
S3Failed(run, message) ==
    [run EXCEPT !.result.s3 = [ok |-> FALSE, bucket |-> S3_BUCKET, key |-> run.s3Key,
                               error |-> message]]
DbFailed(run, message) == [run EXCEPT !.result.db = [ok |-> FALSE, error |-> message]]
RedisFailedSilently(run, message) ==
    [run EXCEPT !.result.redis = [ok |-> FALSE], !.pc = "done"]
RedisFailed(run, message) ==
    [run EXCEPT !.result.redis = [ok |-> FALSE, error |-> message], !.pc = "done"]

\* the run begins with the relational sequence
BeginSelfTestAtDb(u) == EnterDb(IdleRun, u)

\* the object sequence is entered whether or not a bucket is configured
BeginSelfTestAlways(u) ==
    [IdleRun EXCEPT !.pc = "s3put", !.s3Key = S3Key("selftest-" \o Stamp),
                    !.body = "hello from loftwah selftest " \o Stamp,
                    !.calls = <<"s3.put">>]

\* server.ts 405-418 and 432-434: the run up to its first await
BeginSelfTest(u) ==
    IF S3_BUCKET # ""
    THEN [IdleRun EXCEPT !.pc = "s3put", !.s3Key = S3Key("selftest-" \o Stamp),
                         !.body = "hello from loftwah selftest " \o Stamp,
                         !.calls = <<"s3.put">>]
    ELSE EnterDb([IdleRun EXCEPT !.result.s3 =
                      [ok |-> FALSE, error |-> "S3_BUCKET not configured"]], u)

\* server.ts 418: await putS3Text
S3Put(r) ==
    /\ Running /\ st[r].pc = "s3put"
    /\ IF up.s3
       THEN /\ s3' = Put(s3, st[r].s3Key, st[r].body)
            /\ st' = [st EXCEPT ![r].pc = "s3get", ![r].calls = Append(@, "s3.get")]
       ELSE /\ s3' = s3
            /\ \E u \in Uuids : FreshId(u) /\
                   st' = [st EXCEPT ![r] = EnterDb(S3Failed(@, S3Error), u)]
    /\ UNCHANGED <<cfg, up, phase, attempt, now, db, cache, rstatus, http, rz, pool>>

\* server.ts 421-422: await getS3Text, then the comparison
S3Get(r) ==
    /\ Running /\ st[r].pc = "s3get"
    /\ IF getS3Text(S3_BUCKET, st[r].s3Key) = Some(st[r].body)
       THEN st' = [st EXCEPT ![r].pc = "s3del", ![r].calls = Append(@, "s3.delete")]
       ELSE \E u \in Uuids : FreshId(u) /\
                st' = [st EXCEPT ![r] = EnterDb(S3Failed(@, "s3 content mismatch"), u)]
    /\ UNCHANGED <<cfg, up, phase, attempt, now, s3, db, cache, rstatus, http, rz, pool>>

\* server.ts 425-426: await deleteS3Object
S3Delete(r) ==
    /\ Running /\ st[r].pc = "s3del"
    /\ \E u \in Uuids :
        /\ FreshId(u)
        /\ IF up.s3
           THEN /\ s3' = Remove(s3, st[r].s3Key)
                /\ st' = [st EXCEPT ![r] = EnterDb(
                       [@ EXCEPT !.result.s3 = [ok |-> TRUE, bucket |-> S3_BUCKET,
                                                key |-> st[r].s3Key]], u)]
           ELSE /\ s3' = s3
                /\ st' = [st EXCEPT ![r] = EnterDb(S3Failed(@, S3Error), u)]
    /\ UNCHANGED <<cfg, up, phase, attempt, now, db, cache, rstatus, http, rz, pool>>

\* the run ends at the failure of the relational sequence
DbThrowAborts(r, message) ==
    st' = [st EXCEPT ![r] = [DbFailed(@, message) EXCEPT !.pc = "done"]]

\* the relational sequence fails: the catch block, then the cache sequence begins
DbThrow(r, message) ==
    \E u \in Uuids : FreshKey(u) /\
        st' = [st EXCEPT ![r] = EnterRedis(DbFailed(@, message), u)]

\* server.ts 443: await createItem
DbCreate(r) ==
    /\ Running /\ st[r].pc = "dbcreate"
    /\ IF ~up.db THEN db' = db /\ DbThrow(r, DbError)
       ELSE IF st[r].id \in DOMAIN db THEN db' = db /\ DbThrow(r, DbDuplicate)
       ELSE /\ db' = Put(db, st[r].id,
                         createItem(st[r].id, "selftest-" \o st[r].id, st[r].value))
            /\ st' = [st EXCEPT ![r].pc = "dbget", ![r].calls = Append(@, "db.get")]
    /\ UNCHANGED <<cfg, up, phase, attempt, now, s3, cache, rstatus, http, rz, pool>>

\* server.ts 446-447: await getItem
DbGet(r) ==
    /\ Running /\ st[r].pc = "dbget"
    /\ IF ~up.db THEN DbThrow(r, DbError)
       ELSE IF ~getItem(st[r].id).set THEN DbThrow(r, "db get failed")
       ELSE st' = [st EXCEPT ![r].pc = "dbupdate", ![r].calls = Append(@, "db.update")]
    /\ UNCHANGED <<cfg, up, phase, attempt, now, s3, db, cache, rstatus, http, rz, pool>>

\* server.ts 450: await updateItem (its result is not looked at)
DbUpdate(r) ==
    /\ Running /\ st[r].pc = "dbupdate"
    /\ IF ~up.db THEN db' = db /\ DbThrow(r, DbError)
       ELSE /\ db' = IF st[r].id \in DOMAIN db
                     THEN Put(db, st[r].id,
                              updateItem(st[r].id, "selftest-" \o st[r].id \o "-updated",
                                         st[r].value \o "+{updated:true}"))
                     ELSE db
            /\ st' = [st EXCEPT ![r].pc = "dbdelete", ![r].calls = Append(@, "db.delete")]
    /\ UNCHANGED <<cfg, up, phase, attempt, now, s3, cache, rstatus, http, rz, pool>>

\* server.ts 453-455: await deleteItem
DbDelete(r) ==
    /\ Running /\ st[r].pc = "dbdelete"
    /\ IF ~up.db THEN db' = db /\ DbThrow(r, DbError)
       ELSE IF ~deleteItem(st[r].id) THEN db' = db /\ DbThrow(r, "db delete failed")
       ELSE /\ db' = Remove(db, st[r].id)
            /\ \E u \in Uuids : FreshKey(u) /\
                   st' = [st EXCEPT ![r] = EnterRedis(
                       [@ EXCEPT !.result.db = [ok |-> TRUE, id |-> st[r].id]], u)]
    /\ UNCHANGED <<cfg, up, phase, attempt, now, s3, cache, rstatus, http, rz, pool>>

\* server.ts 466: the status check and, on an ended client, the call of connect()
RedisConnect(r) ==
    /\ Running /\ st[r].pc = "rset" /\ needsConnect
    /\ IF connectAccepted
       THEN rstatus' = "connecting" /\ st' = [st EXCEPT ![r].pc = "rconnect"]
       ELSE rstatus' = rstatus /\ st' = [st EXCEPT ![r] = RedisFailed(@, AlreadyConnecting)]
    /\ UNCHANGED <<cfg, up, phase, attempt, now, s3, db, cache, http, rz, pool>>

\* server.ts 466: await redis.connect() settles
RedisConnected(r) ==
    /\ Running /\ st[r].pc = "rconnect"
    /\ IF up.redis
       THEN rstatus' = "ready" /\ st' = [st EXCEPT ![r].pc = "rsetcmd"]
       ELSE /\ rstatus' \in {"reconnecting", "end"}
            /\ st' = [st EXCEPT ![r] = RedisFailed(@, ConnectError)]
    /\ UNCHANGED <<cfg, up, phase, attempt, now, s3, db, cache, http, rz, pool>>

\* server.ts 466-469: no connect needed, or connected: await redis.set
RedisSet(r) ==
    /\ Running
    /\ st[r].pc = "rsetcmd" \/ (st[r].pc = "rset" /\ ~needsConnect)
    /\ rstatus' = redisAfterCall
    /\ IF up.redis
       THEN /\ cache' = Put(cache, st[r].rKey, st[r].val1)
            /\ st' = [st EXCEPT ![r].pc = "rget", ![r].calls = Append(@, "redis.get")]
       ELSE /\ cache' = cache
            /\ st' = [st EXCEPT ![r] = RedisFailed(@, RedisError)]
    /\ UNCHANGED <<cfg, up, phase, attempt, now, s3, db, http, rz, pool>>

\* server.ts 472-473: await redis.get, then the comparison
RedisGet(r) ==
    /\ Running /\ st[r].pc = "rget"
    /\ rstatus' = redisAfterCall
    /\ IF ~up.redis THEN st' = [st EXCEPT ![r] = RedisFailed(@, RedisError)]
       ELSE IF st[r].rKey \notin DOMAIN cache \/ cache[st[r].rKey] # st[r].val1
       THEN st' = [st EXCEPT ![r] = RedisFailed(@, "redis value mismatch")]
       ELSE st' = [st EXCEPT ![r].pc = "rdel", ![r].calls = Append(@, "redis.del")]
    /\ UNCHANGED <<cfg, up, phase, attempt, now, s3, db, cache, http, rz, pool>>

\* server.ts 476-477: await redis.del
RedisDel(r) ==
    /\ Running /\ st[r].pc = "rdel"
    /\ rstatus' = redisAfterCall
    /\ IF up.redis
       THEN /\ cache' = Remove(cache, st[r].rKey)
            /\ st' = [st EXCEPT ![r].pc = "done",
                                ![r].result.redis = [ok |-> TRUE, key |-> st[r].rKey]]
       ELSE /\ cache' = cache
            /\ st' = [st EXCEPT ![r] = RedisFailed(@, RedisError)]
    /\ UNCHANGED <<cfg, up, phase, attempt, now, s3, db, http, rz, pool>>

\* server.ts 369-388: app.listen, then the fire-and-forget self-test
Listen ==
    /\ phase = "listen"
    /\ phase' = "listening"
    /\ IF SELF_TEST_ON_BOOT
       THEN \E u \in Uuids : FreshId(u) /\ st' = [st EXCEPT !["boot"] = BeginSelfTest(u)]
       ELSE st' = st
    /\ UNCHANGED <<cfg, up, attempt, now, s3, db, cache, rstatus, http, rz, pool>>

\* server.ts 380-383: the summary of the boot self-test is logged
LogSummary ==
    /\ Running /\ st["boot"].pc = "done"
    /\ st' = [st EXCEPT !["boot"] = [IdleRun EXCEPT !.pc = "logged"]]
    /\ UNCHANGED <<cfg, up, phase, attempt, now, s3, db, cache, rstatus, http, rz, pool>>

-----------------------------------------------------------------------------
(* The middleware chain: server.ts 9-12 and 131 *)

Route(method, path) ==
    Running /\ http.stage = "route" /\ http.req.method = method /\ http.req.path = path

\* a request arrives: express.static answers it when it names a file of public/,
\* otherwise authMiddleware decides whether the route handler gets it
Request(req) ==
    /\ Running /\ http.stage \in {"idle", "done", "escaped"}
    /\ \E isFile \in IF req.method = "GET" /\ req.path \in StaticFiles
                       THEN BOOLEAN ELSE {FALSE} :
         http' = IF isFile
                 THEN Sent(Routed(req, ""), 200, Text("static file"))
                 ELSE IF authMiddleware(req).next
                 THEN Routed(req, authMiddleware(req).user)
                 ELSE Sent(Routed(req, ""), 401, ErrorBody("unauthorized"))
    /\ rz' = NoReadyz
    /\ UNCHANGED <<cfg, up, phase, attempt, now, s3, db, cache, rstatus, st, pool>>

\* server.ts 143-191
GetRoot ==
    /\ Route("GET", "/")
    /\ http' = Sent(http, 200, Text("overview"))
    /\ UNCHANGED <<cfg, up, phase, attempt, now, s3, db, cache, rstatus, rz, st, pool>>

\* server.ts 194-197
GetHealthz ==
    /\ Route("GET", "/healthz")
    /\ http' = Sent(http, 200, Text("ok"))
    /\ UNCHANGED <<cfg, up, phase, attempt, now, s3, db, cache, rstatus, rz, st, pool>>

\* server.ts 200-202
GetRobots ==
    /\ Route("GET", "/robots.txt")
    /\ http' = Sent(http, 200, Text("User-agent: *"))
    /\ UNCHANGED <<cfg, up, phase, attempt, now, s3, db, cache, rstatus, rz, st, pool>>

\* server.ts 203-205
GetFavicon ==
    /\ Route("GET", "/favicon.ico")
    /\ http' = Sent(http, 204, NoBody)
    /\ UNCHANGED <<cfg, up, phase, attempt, now, s3, db, cache, rstatus, rz, st, pool>>

-----------------------------------------------------------------------------
(* GET /readyz: server.ts 208-224.  probed lists the probes the handler invoked *)

\* server.ts 210: the handler runs up to its first await
GetReadyz ==
    /\ Route("GET", "/readyz")
    /\ http' = [http EXCEPT !.stage = "readyz"]
    /\ rz' = IF S3_BUCKET # "" THEN [NoReadyz EXCEPT !.pc = "s3", !.probed = {"s3"}]
             ELSE [NoReadyz EXCEPT !.pc = "db", !.probed = {"db"}]
    /\ UNCHANGED <<cfg, up, phase, attempt, now, s3, db, cache, rstatus, st, pool>>

\* server.ts 210: await checkS3
ReadyzS3 ==
    /\ Running /\ rz.pc = "s3"
    /\ rz' = [rz EXCEPT !.pc = "db", !.s3Ok = checkS3(S3_BUCKET), !.probed = @ \cup {"db"}]
    /\ UNCHANGED <<cfg, up, phase, attempt, now, s3, db, cache, rstatus, http, st, pool>>

\* server.ts 211: await checkDb
ReadyzDb ==
    /\ Running /\ rz.pc = "db"
    /\ rz' = [rz EXCEPT !.pc = "redis", !.dbOk = checkDb, !.probed = @ \cup {"redis"}]
    /\ UNCHANGED <<cfg, up, phase, attempt, now, s3, db, cache, rstatus, http, st, pool>>

\* server.ts 211 and part_000 350: checkDb awaits pool.connect()
ReadyzDbConnect ==
    /\ Running /\ rz.pc = "db"
    /\ IF poolConnects THEN pool' = pool + 1 /\ rz' = [rz EXCEPT !.pc = "dbquery"]
       ELSE pool' = pool /\
            rz' = [rz EXCEPT !.pc = "redis", !.dbOk = FALSE, !.probed = @ \cup {"redis"}]
    /\ UNCHANGED <<cfg, up, phase, attempt, now, s3, db, cache, rstatus, http, st>>

\* server.ts 211 and part_000 351-356: checkDb awaits the query
ReadyzDbQuery ==
    /\ Running /\ rz.pc = "dbquery"
    /\ pool' = checkDbQuery(up.db)
    /\ rz' = [rz EXCEPT !.pc = "redis", !.dbOk = up.db, !.probed = @ \cup {"redis"}]
    /\ UNCHANGED <<cfg, up, phase, attempt, now, s3, db, cache, rstatus, http, st>>

\* the verdict asks for the object store even when no bucket is configured
readyzStatusNeedsS3(s3Ok, dbOk, redisOk) ==
    IF dbOk /\ s3Ok /\ redisOk THEN "ready" ELSE "degraded"

\* server.ts 213
readyzStatus(s3Ok, dbOk, redisOk) ==
    IF dbOk /\ (S3_BUCKET = "" \/ s3Ok) /\ redisOk THEN "ready" ELSE "degraded"

\* the /readyz response
ReadyzResponse(redisOk) ==
    Sent(http, 200,
         Json([status |-> readyzStatus(rz.s3Ok, rz.dbOk, redisOk),
               version |-> "0.1.0",
               services |-> [s3 |-> rz.s3Ok, db |-> rz.dbOk, redis |-> redisOk]]))

\* lib/redis.ts 29-30: checkRedis finds the client ended and calls connect()
ReadyzConnect ==
    /\ Running /\ rz.pc = "redis" /\ needsConnect
    /\ IF connectAccepted
       THEN rstatus' = "connecting" /\ rz' = [rz EXCEPT !.pc = "connect"] /\ http' = http
       ELSE /\ rstatus' = rstatus
            /\ rz' = [rz EXCEPT !.pc = "done", !.redisOk = FALSE]
            /\ http' = ReadyzResponse(FALSE)
    /\ UNCHANGED <<cfg, up, phase, attempt, now, s3, db, cache, st, pool>>

\* lib/redis.ts 30-36: await redis.connect() settles; a rejection is caught
ReadyzConnected ==
    /\ Running /\ rz.pc = "connect"
    /\ IF up.redis
       THEN rstatus' = "ready" /\ rz' = [rz EXCEPT !.pc = "ping"] /\ http' = http
       ELSE /\ rstatus' \in {"reconnecting", "end"}
            /\ rz' = [rz EXCEPT !.pc = "done", !.redisOk = FALSE]
            /\ http' = ReadyzResponse(FALSE)
    /\ UNCHANGED <<cfg, up, phase, attempt, now, s3, db, cache, st, pool>>

\* server.ts 212-223: await checkRedis, then the verdict and the response
ReadyzRedis ==
    /\ Running
    /\ rz.pc = "ping" \/ (rz.pc = "redis" /\ ~needsConnect)
    /\ rstatus' = redisAfterCall
    /\ rz' = [rz EXCEPT !.pc = "done", !.redisOk = checkRedis]
    /\ http' = ReadyzResponse(checkRedis)
    /\ UNCHANGED <<cfg, up, phase, attempt, now, s3, db, cache, st, pool>>

-----------------------------------------------------------------------------
(* GET /selftest: server.ts 227-234 *)

\* server.ts 229: runSelfTest is called and awaited
GetSelftest ==
    /\ Route("GET", "/selftest")
    /\ st["http"].pc = "idle"
    /\ http' = [http EXCEPT !.stage = "selftest"]
    /\ \E u \in Uuids : FreshId(u) /\ st' = [st EXCEPT !["http"] = BeginSelfTest(u)]
    /\ UNCHANGED <<cfg, up, phase, attempt, now, s3, db, cache, rstatus, rz, pool>>

\* server.ts 230: res.json(result)
SelftestRespond ==
    /\ Running /\ http.stage = "selftest" /\ st["http"].pc = "done"
    /\ http' = Sent(http, 200, Json(st["http"].result))
    /\ st' = [st EXCEPT !["http"] = IdleRun]
    /\ UNCHANGED <<cfg, up, phase, attempt, now, s3, db, cache, rstatus, rz, pool>>

-----------------------------------------------------------------------------
(* Object CRUD: server.ts 237-276.  A request body is the parsed JSON object: each
   property read by a handler as an optional string, raw its JSON.stringify text *)

\* server.ts 242-245
s3Body(body) == IF body.text.set THEN body.text.val ELSE body.raw

\* server.ts 237-251
PostS3 ==
    /\ Route("POST", "/s3/:id")
    /\ IF S3_BUCKET = ""
       THEN s3' = s3 /\ http' = Sent(http, 400, ErrorBody("S3_BUCKET not configured"))
       ELSE IF up.s3
       THEN /\ s3' = Put(s3, S3Key(http.req.id), s3Body(http.req.body))
            /\ http' = Sent(http, 200, Json([ok |-> TRUE, bucket |-> S3_BUCKET,
                                             key |-> S3Key(http.req.id)]))
       ELSE s3' = s3 /\ http' = Sent(http, 500, ErrorBody(S3Error))
    /\ UNCHANGED <<cfg, up, phase, attempt, now, db, cache, rstatus, rz, st, pool>>

\* server.ts 253-264
GetS3 ==
    /\ Route("GET", "/s3/:id")
    /\ LET content == getS3Text(S3_BUCKET, S3Key(http.req.id)) IN
       http' = IF S3_BUCKET = ""
               THEN Sent(http, 400, ErrorBody("S3_BUCKET not configured"))
               ELSE IF ~content.set THEN Sent(http, 404, ErrorBody("Not found"))
               ELSE Sent(http, 200, Text(content.val))
    /\ UNCHANGED <<cfg, up, phase, attempt, now, s3, db, cache, rstatus, rz, st, pool>>

\* server.ts 266-276
DeleteS3 ==
    /\ Route("DELETE", "/s3/:id")
    /\ IF S3_BUCKET = ""
       THEN s3' = s3 /\ http' = Sent(http, 400, ErrorBody("S3_BUCKET not configured"))
       ELSE IF up.s3
       THEN /\ s3' = Remove(s3, S3Key(http.req.id))
            /\ http' = Sent(http, 200, Json([ok |-> TRUE]))
       ELSE s3' = s3 /\ http' = Sent(http, 500, ErrorBody(S3Error))
    /\ UNCHANGED <<cfg, up, phase, attempt, now, db, cache, rstatus, rz, st, pool>>

-----------------------------------------------------------------------------
(* Relational CRUD: server.ts 279-309.  The handlers have no try/catch: a rejected
   store call rejects the handler's promise *)

\* the rejection of an async handler: no response; an unhandled rejection ends the
\* process unless the runtime or the framework version in use absorbs it
Reject(message) ==
    /\ http' = Escaped(http, message)
    /\ phase' \in {phase, "crashed"}

\* server.ts 281 and 299: req.body?.name || `banana-by-${user}`
nameOf(body, user) ==
    IF nonEmpty(body.name) THEN body.name.val ELSE "banana-by-" \o userOf(user)

\* server.ts 282: req.body?.value ?? { by: user, fun: true }
createValueOf(body, user) ==
    IF body.value.set THEN body.value.val ELSE "{by:" \o userOf(user) \o ",fun:true}"

\* server.ts 300: req.body?.value ?? { updatedBy: user }
updateValueOf(body, user) ==
    IF body.value.set THEN body.value.val ELSE "{updatedBy:" \o userOf(user) \o "}"

\* server.ts 283-284: await createItem, then res.json(item)
PostItemAs(id) ==
    LET item == createItem(id, nameOf(http.req.body, http.user),
                           createValueOf(http.req.body, http.user))
    IN IF ~up.db THEN db' = db /\ Reject(DbError)
       ELSE IF id \in DOMAIN db THEN db' = db /\ Reject(DbDuplicate)
       ELSE db' = Put(db, id, item) /\ http' = Sent(http, 200, Json(item))
            /\ phase' = phase

\* server.ts 279-285; server.ts 280: req.body?.id || randomUUID()
PostItem ==
    /\ Route("POST", "/db/items")
    /\ IF nonEmpty(http.req.body.id) THEN PostItemAs(http.req.body.id.val)
       ELSE \E u \in Uuids : FreshId(u) /\ PostItemAs(u)
    /\ UNCHANGED <<cfg, up, attempt, now, s3, cache, rstatus, rz, st, pool>>

\* server.ts 287-290 and part_000 391-396
ListItems ==
    /\ Route("GET", "/db/items")
    /\ IF ~up.db THEN Reject(DbError)
       ELSE http' = Sent(http, 200, Json({db[i] : i \in DOMAIN db})) /\ phase' = phase
    /\ UNCHANGED <<cfg, up, attempt, now, s3, db, cache, rstatus, rz, st, pool>>

\* server.ts 292-296
GetItem ==
    /\ Route("GET", "/db/items/:id")
    /\ IF ~up.db THEN Reject(DbError)
       ELSE /\ http' = IF ~getItem(http.req.id).set
                       THEN Sent(http, 404, ErrorBody("Not found"))
                       ELSE Sent(http, 200, Json(getItem(http.req.id).val))
            /\ phase' = phase
    /\ UNCHANGED <<cfg, up, attempt, now, s3, db, cache, rstatus, rz, st, pool>>

\* server.ts 298-304
PutItem ==
    /\ Route("PUT", "/db/items/:id")
    /\ LET id == http.req.id IN
       IF ~up.db THEN db' = db /\ Reject(DbError)
       ELSE IF id \notin DOMAIN db
       THEN db' = db /\ http' = Sent(http, 404, ErrorBody("Not found")) /\ phase' = phase
       ELSE LET item == updateItem(id, nameOf(http.req.body, http.user),
                                   updateValueOf(http.req.body, http.user))
            IN db' = Put(db, id, item) /\ http' = Sent(http, 200, Json(item))
               /\ phase' = phase
    /\ UNCHANGED <<cfg, up, attempt, now, s3, cache, rstatus, rz, st, pool>>

\* server.ts 306-309
DeleteItem ==
    /\ Route("DELETE", "/db/items/:id")
    /\ IF ~up.db THEN db' = db /\ Reject(DbError)
       ELSE /\ db' = Remove(db, http.req.id)
            /\ http' = Sent(http, 200, Json([ok |-> deleteItem(http.req.id)]))
            /\ phase' = phase
    /\ UNCHANGED <<cfg, up, attempt, now, s3, cache, rstatus, rz, st, pool>>

-----------------------------------------------------------------------------
(* Cache CRUD: server.ts 312-345.  No try/catch either *)

\* server.ts 314-317 and 332-335
cacheValue(body) == IF body.value.set THEN body.value.val ELSE body.raw

\* server.ts 318, 324, 336, 342: the status check and, on an ended client, the call
\* of connect()
CacheConnect ==
    /\ Running /\ http.stage = "route" /\ http.req.path = "/cache/:key" /\ needsConnect
    /\ IF connectAccepted
       THEN rstatus' = "connecting" /\ http' = [http EXCEPT !.stage = "connect"]
            /\ phase' = phase
       ELSE rstatus' = rstatus /\ Reject(AlreadyConnecting)
    /\ UNCHANGED <<cfg, up, attempt, now, s3, db, cache, rz, st, pool>>

\* await redis.connect() settles
CacheConnected ==
    /\ Running /\ http.stage = "connect"
    /\ IF up.redis
       THEN rstatus' = "ready" /\ http' = [http EXCEPT !.stage = "command"] /\ phase' = phase
       ELSE rstatus' \in {"reconnecting", "end"} /\ Reject(ConnectError)
    /\ UNCHANGED <<cfg, up, attempt, now, s3, db, cache, rz, st, pool>>

\* the handler is about to issue its command: no connect needed, or connected
CacheRoute(method) ==
    /\ Running /\ http.req.method = method /\ http.req.path = "/cache/:key"
    /\ http.stage = "command" \/ (http.stage = "route" /\ ~needsConnect)

\* server.ts 312-321 (POST) and 330-339 (PUT)
SetCache(method) ==
    /\ CacheRoute(method)
    /\ rstatus' = redisAfterCall
    /\ IF ~up.redis THEN cache' = cache /\ Reject(RedisError)
       ELSE /\ cache' = Put(cache, http.req.id, cacheValue(http.req.body))
            /\ http' = Sent(http, 200, Json([ok |-> TRUE]))
            /\ phase' = phase
    /\ UNCHANGED <<cfg, up, attempt, now, s3, db, rz, st, pool>>

PostCache == SetCache("POST")
PutCache == SetCache("PUT")

\* server.ts 323-328
GetCache ==
    /\ CacheRoute("GET")
    /\ rstatus' = redisAfterCall
    /\ IF ~up.redis THEN Reject(RedisError)
       ELSE /\ http' = IF http.req.id \notin DOMAIN cache
                       THEN Sent(http, 404, ErrorBody("Not found"))
                       ELSE Sent(http, 200, Text(cache[http.req.id]))
            /\ phase' = phase
    /\ UNCHANGED <<cfg, up, attempt, now, s3, db, cache, rz, st, pool>>

\* server.ts 341-345: redis.del answers the number of keys removed
DeleteCache ==
    /\ CacheRoute("DELETE")
    /\ rstatus' = redisAfterCall
    /\ IF ~up.redis THEN cache' = cache /\ Reject(RedisError)
       ELSE /\ cache' = Remove(cache, http.req.id)
            /\ http' = Sent(http, 200, Json([ok |-> http.req.id \in DOMAIN cache]))
            /\ phase' = phase
    /\ UNCHANGED <<cfg, up, attempt, now, s3, db, rz, st, pool>>

-----------------------------------------------------------------------------
(* Inputs *)

SecretEnvs == {Unset, Str(demo)}
Buckets == {"", "demo-bucket"}

\* Authorization headers
BearerSecret == Header(Bearer_ \o hunter2)
Headers ==
    { Unset, Header(<<>>),
      BearerSecret, Header(Bearer_ \o demo), Header(Bearer_ \o nope), Header(Bearer_),
      Header(Bearer_ \o <<" ">> \o hunter2 \o <<" ">>),
      Header(Bearer_ \o alice \o <<":">> \o hunter2),
      Header(<<"b", "e", "a", "r", "e", "r", " ">> \o hunter2),
      Header(hunter2), Header(demo),
      Header(alice \o <<":">> \o hunter2), Header(alice \o <<":">> \o demo),
      Header(<<":">> \o hunter2), Header(alice \o <<":">> \o nope),
      Header(alice \o <<":">> \o nope \o <<":">> \o hunter2),
      Header(alice \o <<":">>) }

\* token query parameters
Tokens == {Unset, Str(<<>>), Str(hunter2), Str(nope)}

TextBodies == { [text |-> Some("hello"), raw |-> "{text:hello}"],
                [text |-> Some(""), raw |-> "{text:}"],
                [text |-> Null, raw |-> "{}"] }
ValueBodies == { [value |-> Some("hello"), raw |-> "{value:hello}"],
                 [value |-> Some(""), raw |-> "{value:}"],
                 [value |-> Null, raw |-> "{}"] }
ItemBodies == { [id |-> Some("i1"), name |-> n, value |-> v] :
                  n \in {Null, Some(""), Some("banana")},
                  v \in {Null, Some("{tasty:true}")} }
              \cup { [id |-> Null, name |-> Null, value |-> Null] }
UpdateBodies == { [name |-> n, value |-> v] :
                    n \in {Null, Some("apple")}, v \in {Null, Some("{updated:true}")} }

\* requests that read: every path, every credential
GateRequests ==
    { Req("GET", p, IF p = "/cache/:key" THEN "greeting" ELSE "", h, q, NoBody) :
        p \in {"/", "/healthz", "/robots.txt", "/favicon.ico", "/readyz", "/db/items",
               "/cache/:key"},
        h \in Headers, q \in Tokens }

ReadyzRequests == { Req("GET", "/readyz", "", BearerSecret, Unset, NoBody) }
SelftestRequests == { Req("GET", "/selftest", "", BearerSecret, Unset, NoBody) }

\* the CRUD routes, two keys per store and the generated identifiers
CrudRequests ==
    LET As(m, p, i, b) == Req(m, p, i, BearerSecret, Unset, b) IN
    { As("POST", "/s3/:id", "banana", b) : b \in TextBodies }
    \cup { As(m, "/s3/:id", "banana", NoBody) : m \in {"GET", "DELETE"} }
    \cup { As("POST", "/db/items", "", b) : b \in ItemBodies }
    \cup { As("GET", "/db/items", "", NoBody) }
    \cup { As(m, "/db/items/:id", i, NoBody) : m \in {"GET", "DELETE"}, i \in {"i1"} \cup Uuids }
    \cup { As("PUT", "/db/items/:id", "i1", b) : b \in UpdateBodies }
    \cup { As(m, "/cache/:key", "greeting", b) : m \in {"POST", "PUT"}, b \in ValueBodies }
    \cup { As(m, "/cache/:key", "greeting", NoBody) : m \in {"GET", "DELETE"} }
    \cup { As("POST", "/s3/:id", "apple", [text |-> Some("hello"), raw |-> "{text:hello}"]),
           As("GET", "/s3/:id", "apple", NoBody), As("DELETE", "/s3/:id", "apple", NoBody),
           As("POST", "/cache/:key", "farewell", [value |-> Some("bye"), raw |-> "{value:bye}"]),
           As("GET", "/cache/:key", "farewell", NoBody),
           As("DELETE", "/cache/:key", "farewell", NoBody) }

\* every CRUD route once
FaultRequests ==
    LET As(m, p, i, b) == Req(m, p, i, BearerSecret, Unset, b) IN
    { As("POST", "/s3/:id", "banana", [text |-> Some("hello"), raw |-> "{text:hello}"]),
      As("GET", "/s3/:id", "banana", NoBody), As("DELETE", "/s3/:id", "banana", NoBody),
      As("POST", "/db/items", "", [id |-> Some("i1"), name |-> Null, value |-> Null]),
      As("GET", "/db/items", "", NoBody), As("GET", "/db/items/:id", "i1", NoBody),
      As("PUT", "/db/items/:id", "i1", [name |-> Some("apple"), value |-> Null]),
      As("DELETE", "/db/items/:id", "i1", NoBody),
      As("POST", "/cache/:key", "greeting", [value |-> Some("hello"), raw |-> "{value:hello}"]),
      As("PUT", "/cache/:key", "greeting", [value |-> Null, raw |-> "{}"]),
      As("GET", "/cache/:key", "greeting", NoBody),
      As("DELETE", "/cache/:key", "greeting", NoBody) }

-----------------------------------------------------------------------------
(* Specifications *)

Startup == WaitForPostgres \/ Migrate \/ WaitForS3 \/ Listen

ReadyzSteps == GetReadyz \/ ReadyzS3 \/ ReadyzDb \/ ReadyzRedis

SelfTestStep(r) ==
    \/ S3Put(r) \/ S3Get(r) \/ S3Delete(r)
    \/ DbCreate(r) \/ DbGet(r) \/ DbUpdate(r) \/ DbDelete(r)
    \/ RedisSet(r) \/ RedisGet(r) \/ RedisDel(r)

\* the steps of redis.connect() on an ended client
ConnectSteps ==
    \/ CacheConnect \/ CacheConnected
    \/ ReadyzConnect \/ ReadyzConnected
    \/ \E r \in Runs : RedisConnect(r) \/ RedisConnected(r)

CrudSteps ==
    \/ PostS3 \/ GetS3 \/ DeleteS3
    \/ PostItem \/ ListItems \/ GetItem \/ PutItem \/ DeleteItem
    \/ PostCache \/ PutCache \/ GetCache \/ DeleteCache

\* no self-test is between its first and its last store call
Between == \A r \in Runs : st[r].pc \in {"idle", "logged"}

\* the whole service under every request above
Init == InitWith(Configs(SecretEnvs, Buckets, BOOLEAN, BOOLEAN))
Next ==
    \/ Startup
    \/ \E s \in Stores : Fail(s)
    \/ \E s \in Stores : Recover(s)
    \/ Tick
    \/ \E req \in ReadyzRequests \cup SelftestRequests \cup CrudRequests : Request(req)
    \/ GetRoot \/ GetHealthz \/ GetRobots \/ GetFavicon
    \/ ReadyzSteps
    \/ GetSelftest \/ SelftestRespond \/ LogSummary
    \/ \E r \in Runs : SelfTestStep(r)
    \/ CrudSteps
    \/ ConnectSteps
Spec == Init /\ [][Next]_vars

AllUp == \A s \in Stores : up[s]

\* the gate: read requests with every credential, the stores reachable
InitGate == InitWith(Configs(SecretEnvs, {"demo-bucket"}, BOOLEAN, {FALSE})) /\ AllUp
NextGate ==
    \/ Startup
    \/ \E req \in GateRequests : Request(req)
    \/ GetRoot \/ GetHealthz \/ GetRobots \/ GetFavicon
    \/ ReadyzSteps
    \/ ListItems \/ GetCache
SpecGate == InitGate /\ [][NextGate]_vars

\* the readiness probe while stores come and go
InitReadyz == InitWith(Configs({Unset}, Buckets, {FALSE}, {FALSE}))
NextReadyz ==
    \/ Startup
    \/ \E s \in Stores : Fail(s)
    \/ \E s \in Stores : Recover(s)
    \/ \E req \in ReadyzRequests : Request(req)
    \/ ReadyzSteps
    \/ ReadyzConnect \/ ReadyzConnected
SpecReadyz == InitReadyz /\ [][NextReadyz]_vars

\* the CRUD routes, the stores reachable
InitCrud == InitWith(Configs({Unset}, {"demo-bucket"}, {FALSE}, {FALSE})) /\ AllUp
NextCrud ==
    \/ Startup
    \/ \E req \in CrudRequests : Request(req)
    \/ CrudSteps
SpecCrud == InitCrud /\ [][NextCrud]_vars

\* the CRUD routes while stores come and go
InitFaults == InitWith(Configs({Unset}, Buckets, {FALSE}, {FALSE}))
NextFaults ==
    \/ Startup
    \/ \E s \in Stores : Fail(s)
    \/ \E s \in Stores : Recover(s)
    \/ \E req \in FaultRequests : Request(req)
    \/ CrudSteps
    \/ CacheConnect \/ CacheConnected
SpecFaults == InitFaults /\ [][NextFaults]_vars

\* self-tests one at a time, the stores changing only between two of them
InitSelfTest == InitWith(Configs({Unset}, Buckets, {FALSE}, BOOLEAN))
NextSelfTest ==
    \/ Startup
    \/ (Between /\ \E s \in Stores : Fail(s))
    \/ (Between /\ \E s \in Stores : Recover(s))
    \/ Tick
    \/ (Between /\ \E req \in SelftestRequests : Request(req))
    \/ GetSelftest \/ SelftestRespond \/ LogSummary
    \/ \E r \in Runs : SelfTestStep(r)
    \/ \E r \in Runs : RedisConnect(r) \/ RedisConnected(r)
SpecSelfTest == InitSelfTest /\ [][NextSelfTest]_vars

\* cache operations side by side (a /cache handler or checkRedis with the cache
\* sequence of the boot self-test) while the cache comes and goes
CacheRequests ==
    LET As(m, p, i, b) == Req(m, p, i, BearerSecret, Unset, b) IN
    { As("POST", "/cache/:key", "greeting", [value |-> Some("hello"), raw |-> "{value:hello}"]),
      As("GET", "/cache/:key", "greeting", NoBody),
      As("DELETE", "/cache/:key", "greeting", NoBody) }
    \cup ReadyzRequests \cup SelftestRequests
InitCache ==
    InitWith(Configs({Unset}, {"demo-bucket"}, {FALSE}, {TRUE})) /\ up.s3 /\ up.db
NextCache ==
    \/ Startup
    \/ Fail("redis")
    \/ Recover("redis")
    \/ \E req \in CacheRequests : Request(req)
    \/ ReadyzSteps
    \/ PostCache \/ GetCache \/ DeleteCache
    \/ GetSelftest \/ SelftestRespond \/ LogSummary
    \/ \E r \in Runs : SelfTestStep(r)
    \/ ConnectSteps
SpecCache == InitCache /\ [][NextCache]_vars

\* GET /selftest while stores come and go at any moment
InitStorm == InitWith(Configs({Unset}, Buckets, {FALSE}, {FALSE}))
NextStorm ==
    \/ Startup
    \/ \E s \in Stores : Fail(s)
    \/ \E s \in Stores : Recover(s)
    \/ \E req \in SelftestRequests : Request(req)
    \/ GetSelftest \/ SelftestRespond
    \/ SelfTestStep("http")
    \/ RedisConnect("http") \/ RedisConnected("http")
SpecStorm == InitStorm /\ [][NextStorm]_vars

\* the object routes and the boot self-test while the object store comes and goes
S3Requests ==
    LET As(m, b) == Req(m, "/s3/:id", "banana", BearerSecret, Unset, b) IN
    { As("POST", [text |-> Some("hello"), raw |-> "{text:hello}"]),
      As("GET", NoBody), As("DELETE", NoBody) }
InitS3Down == InitWith(Configs({Unset}, Buckets, {FALSE}, {TRUE})) /\ up.db /\ up.redis
NextS3Down ==
    \/ Startup
    \/ Fail("s3")
    \/ Recover("s3")
    \/ \E req \in S3Requests : Request(req)
    \/ PostS3 \/ GetS3 \/ DeleteS3
    \/ SelfTestStep("boot")
    \/ LogSummary
SpecS3Down == InitS3Down /\ [][NextS3Down]_vars


\* the boot self-test while rows are deleted over HTTP and the database comes and goes
RaceRequests ==
    { Req("DELETE", "/db/items/:id", u, BearerSecret, Unset, NoBody) : u \in Uuids }
InitRace == InitWith(Configs({Unset}, {"demo-bucket"}, {FALSE}, {TRUE})) /\ AllUp
NextRace ==
    \/ Startup
    \/ Fail("db")
    \/ Recover("db")
    \/ \E req \in RaceRequests : Request(req)
    \/ DeleteItem
    \/ SelfTestStep("boot")
    \/ LogSummary
SpecRace == InitRace /\ [][NextRace]_vars

\* the probes of the database step by step (pool.connect, then the query) at start-up
\* and in /readyz, while the database comes and goes
InitPool == InitWith(Configs({Unset}, {""}, {FALSE}, {FALSE})) /\ up.s3 /\ up.redis
NextPool ==
    \/ Fail("db")
    \/ Recover("db")
    \/ WaitForPostgresConnect \/ WaitForPostgresQuery
    \/ Migrate \/ Listen
    \/ \E req \in ReadyzRequests : Request(req)
    \/ GetReadyz \/ ReadyzDbConnect \/ ReadyzDbQuery \/ ReadyzRedis
SpecPool == InitPool /\ [][NextPool]_vars

\* start-up, the CRUD routes and /readyz while stores come and go
InitRetry == InitFaults
NextRetry ==
    \/ NextFaults
    \/ \E req \in ReadyzRequests : Request(req)
    \/ ReadyzSteps
    \/ ReadyzConnect \/ ReadyzConnected
SpecRetry == InitRetry /\ [][NextRetry]_vars

\* GET /selftest while the boot self-test may still run, the stores reachable
InitOverlap == InitWith(Configs({Unset}, {"demo-bucket"}, {FALSE}, {TRUE})) /\ AllUp
NextOverlap ==
    \/ Startup
    \/ Tick
    \/ \E req \in SelftestRequests : Request(req)
    \/ GetSelftest \/ SelftestRespond \/ LogSummary
    \/ \E r \in Runs : SelfTestStep(r)
SpecOverlap == InitOverlap /\ [][NextOverlap]_vars

\* start() while stores come and go; the event loop keeps running start()
InitStartup == InitWith(Configs({Unset}, Buckets, {FALSE}, {FALSE}))
NextStartup ==
    \/ Startup
    \/ \E s \in Stores : Fail(s)
    \/ \E s \in Stores : Recover(s)
SpecStartup == InitStartup /\ [][NextStartup]_vars /\ WF_vars(Startup)

-----------------------------------------------------------------------------
(* Properties *)

NoError(slot) == "error" \notin DOMAIN slot

\* C1: with object storage configured and each store either reachable or not for the
\* whole run, a finished runSelfTest reports ok:true, with no error, in a store's slot
\* exactly when that store is reachable: a failing sequence neither ends the run nor
\* changes another store's slot.
C1_SlotPerStore ==
    \A r \in Runs :
        (st[r].pc = "done" /\ S3_BUCKET # "") =>
            \A s \in Stores :
                /\ st[r].result[s].ok = up[s]
                /\ st[r].result[s].ok => NoError(st[r].result[s])
                /\ ~st[r].result[s].ok => ~NoError(st[r].result[s])

\* a run finished with the object store, the first one exercised, unreachable and the
\* two other slots ok:true
C1_Witness ==
    \E r \in Runs :
        /\ st[r].pc = "done" /\ S3_BUCKET # ""
        /\ ~up.s3 /\ ~st[r].result.s3.ok
        /\ up.db /\ st[r].result.db.ok /\ NoError(st[r].result.db)
        /\ up.redis /\ st[r].result.redis.ok /\ NoError(st[r].result.redis)

\* C2: the /readyz response says ready exactly when the database probe and the cache
\* probe succeeded and the bucket is unconfigured or its probe succeeded, degraded
\* otherwise; without a bucket the object-store probe is not invoked.
C2_ReadyzVerdict ==
    (http.stage = "done" /\ http.req.path = "/readyz" /\ http.status = 200) =>
        /\ http.body.json.status \in {"ready", "degraded"}
        /\ http.body.json.status = "ready" <=>
               (rz.dbOk /\ rz.redisOk /\ (S3_BUCKET = "" \/ rz.s3Ok))
        /\ ~rz.dbOk => http.body.json.status = "degraded"
        /\ http.body.json.services = [s3 |-> rz.s3Ok, db |-> rz.dbOk, redis |-> rz.redisOk]
        /\ rz.probed = IF S3_BUCKET = "" THEN {"db", "redis"} ELSE {"s3", "db", "redis"}

\* /readyz answered degraded because the database probe alone failed
C2_Witness ==
    /\ http.stage = "done" /\ http.req.path = "/readyz" /\ http.status = 200
    /\ ~rz.dbOk /\ rz.redisOk /\ rz.s3Ok
    /\ http.body.json.status = "degraded"

\* C3: no store error leaves a handler: every request is answered and the process
\* keeps running.
C3_ErrorsCaught == http.stage # "escaped" /\ phase # "crashed"

\* what the gate is told: the paths it guards and the credentials it accepts
Protected(req) ==
    req.path \in {"/db/items", "/cache/:key", "/selftest"}
                 \cup (IF READYZ_PUBLIC THEN {} ELSE {"/readyz"})
Blanks(n) == [i \in 1..n |-> " "]
PresentsBearer(h) ==
    \E i, j \in 0..Len(h) : h = Bearer_ \o Blanks(i) \o APP_AUTH_SECRET \o Blanks(j)
PresentsBasic(h) ==
    /\ ~startsWith(h, Bearer_)
    /\ \E k \in 1..Len(h) :
        /\ h[k] = ":" /\ \A j \in (k + 1)..Len(h) : h[j] # ":"
        /\ SubSeq(h, k + 1, Len(h)) = APP_AUTH_SECRET
PresentsSecret(req) ==
    \/ (req.authorization.set /\ PresentsBearer(req.authorization.val))
    \/ (req.authorization.set /\ PresentsBasic(req.authorization.val))
    \/ (req.token.set /\ req.token.val = APP_AUTH_SECRET)
Answered == http.stage # "idle"
Rejected ==
    http.stage = "done" /\ http.status = 401 /\ http.body = ErrorBody("unauthorized")
    /\ rz = NoReadyz

\* C4: a request to a protected path with no Authorization header and no token is
\* not answered 401: it goes to its handler as user loftwah.
C4_NoCredentialAccepted ==
    (Answered /\ Protected(http.req) /\ ~http.req.authorization.set /\ ~http.req.token.set)
        => (http.status # 401 /\ http.user = "loftwah")

\* C5: a request to a protected path that presents a credential goes to its handler
\* when its Bearer token, the secret of its user:secret credential (the text after the
\* last colon) or its token parameter equals APP_AUTH_SECRET, and is answered
\* 401 {error: unauthorized} without its handler running when nothing matches.
C5_CredentialDecides ==
    (Answered /\ Protected(http.req) /\ (http.req.authorization.set \/ http.req.token.set))
        => IF PresentsSecret(http.req) THEN http.status # 401 /\ http.user # ""
           ELSE Rejected

\* a user:secret credential with two colons passed the gate
C5_Witness ==
    /\ http.stage = "route" /\ Protected(http.req)
    /\ http.req.authorization = Header(alice \o <<":">> \o nope \o <<":">> \o hunter2)
    /\ ~http.req.token.set

\* C6: a request to a protected path with Authorization: Bearer demo is accepted as
\* user loftwah whatever APP_AUTH_SECRET is.
C6_DemoTokenAccepted ==
    (Answered /\ Protected(http.req) /\ http.req.authorization = Header(Bearer_ \o demo))
        => (http.status # 401 /\ http.user = "loftwah")

\* C7: /healthz, /robots.txt, /favicon.ico, and /readyz when READYZ_PUBLIC, are never
\* answered 401, whatever credential comes with them; without READYZ_PUBLIC /readyz
\* is rejected exactly when the request presents no matching credential.
C7_PublicPaths ==
    Answered =>
        /\ http.req.path \in {"/healthz", "/robots.txt", "/favicon.ico"} => http.status # 401
        /\ (READYZ_PUBLIC /\ http.req.path = "/readyz") => http.status # 401
        /\ (~READYZ_PUBLIC /\ http.req.path = "/readyz") =>
               (http.status = 401 <=> ~PresentsSecret(http.req))

\* /healthz answered 200 to a request carrying a wrong credential
C7_Witness ==
    /\ http.stage = "done" /\ http.req.path = "/healthz" /\ http.status = 200
    /\ http.req.authorization = Header(Bearer_ \o nope)

\* the request the response answers
Done(method, path) ==
    http.stage = "done" /\ http.req.method = method /\ http.req.path = path
HasRow(f, k) == k \in DOMAIN f

\* what a write leaves in its store, what a read answers, what a delete leaves
C8_Object ==
    LET key == S3Key(http.req.id) IN
    /\ (Done("POST", "/s3/:id") /\ http.status = 200) =>
           /\ HasRow(s3, key)
           /\ s3[key] = IF http.req.body.text.set THEN http.req.body.text.val
                        ELSE http.req.body.raw
    /\ Done("GET", "/s3/:id") =>
           IF HasRow(s3, key) THEN http.status = 200 /\ http.body = Text(s3[key])
           ELSE http.status = 404
    /\ (Done("DELETE", "/s3/:id") /\ http.status = 200) => ~HasRow(s3, key)
C8_Row ==
    /\ (Done("POST", "/db/items") /\ http.status = 200) =>
           LET item == http.body.json IN
           /\ HasRow(db, item.id) /\ db[item.id] = item
           /\ nonEmpty(http.req.body.id) => item.id = http.req.body.id.val
           /\ nonEmpty(http.req.body.name) => item.name = http.req.body.name.val
           /\ http.req.body.value.set => item.value = http.req.body.value.val
    /\ (Done("PUT", "/db/items/:id") /\ http.status = 200) =>
           /\ HasRow(db, http.req.id) /\ db[http.req.id] = http.body.json
           /\ nonEmpty(http.req.body.name) => http.body.json.name = http.req.body.name.val
           /\ http.req.body.value.set => http.body.json.value = http.req.body.value.val
    /\ Done("GET", "/db/items/:id") =>
           IF HasRow(db, http.req.id)
           THEN http.status = 200 /\ http.body = Json(db[http.req.id])
           ELSE http.status = 404
    /\ (Done("DELETE", "/db/items/:id") /\ http.status = 200) => ~HasRow(db, http.req.id)
C8_Entry ==
    LET key == http.req.id IN
    /\ ((Done("POST", "/cache/:key") \/ Done("PUT", "/cache/:key")) /\ http.status = 200) =>
           /\ HasRow(cache, key)
           /\ cache[key] = IF http.req.body.value.set THEN http.req.body.value.val
                           ELSE http.req.body.raw
    /\ Done("GET", "/cache/:key") =>
           IF HasRow(cache, key) THEN http.status = 200 /\ http.body = Text(cache[key])
           ELSE http.status = 404
    /\ (Done("DELETE", "/cache/:key") /\ http.status = 200) => ~HasRow(cache, key)

\* a store changes only in the step that answers a write or a delete, and only at
\* the key of that request
C8_Frame ==
    LET Same(f, g, k) == (HasRow(f, k) <=> HasRow(g, k)) /\ (HasRow(f, k) => f[k] = g[k])
        By(methods, path) ==
            /\ http.stage = "route" /\ http'.stage = "done" /\ http'.status = 200
            /\ http'.req = http.req
            /\ http.req.method \in methods /\ http.req.path = path
    IN /\ s3' # s3 =>
             /\ By({"POST", "DELETE"}, "/s3/:id")
             /\ \A k \in (DOMAIN s3 \cup DOMAIN s3') \ {S3Key(http.req.id)} : Same(s3, s3', k)
       /\ db' # db =>
             /\ \/ By({"POST"}, "/db/items")
                \/ By({"PUT", "DELETE"}, "/db/items/:id")
             /\ \A k \in (DOMAIN db \cup DOMAIN db') \
                         {IF http.req.path = "/db/items" THEN http'.body.json.id
                          ELSE http.req.id} : Same(db, db', k)
       /\ cache' # cache =>
             /\ By({"POST", "PUT", "DELETE"}, "/cache/:key")
             /\ \A k \in (DOMAIN cache \cup DOMAIN cache') \ {http.req.id} :
                    Same(cache, cache', k)

\* C8: over the CRUD routes of each store, with the store reachable: a write stores
\* the content of the request under its key or id, nothing but a write or a delete of
\* that key changes it, a read answers the content stored, and answers 404 from a
\* delete until the next write.
C8_RoundTrip == [](C8_Object /\ C8_Row /\ C8_Entry) /\ [][C8_Frame]_vars

\* GET /cache/greeting answered the value an earlier POST had set
C8_Witness ==
    /\ Done("GET", "/cache/:key") /\ http.status = 200
    /\ http.req.id = "greeting" /\ http.body = Text("hello")

\* C9: DELETE /db/items/:id and DELETE /cache/:key answer ok:true when the row or key
\* existed and ok:false when it did not; either way it does not exist afterwards, so
\* a second delete in a row answers ok:false and leaves the store as it was.
C9_Step ==
    LET Deletes(path) ==
            /\ http.stage = "route" /\ http'.stage = "done"
            /\ http.req.method = "DELETE" /\ http.req.path = path
    IN /\ Deletes("/db/items/:id") =>
             /\ http'.status = 200
             /\ http'.body = Json([ok |-> HasRow(db, http.req.id)])
             /\ ~HasRow(db, http.req.id) => db' = db
       /\ Deletes("/cache/:key") =>
             /\ http'.status = 200
             /\ http'.body = Json([ok |-> HasRow(cache, http.req.id)])
             /\ ~HasRow(cache, http.req.id) => cache' = cache
C9_After ==
    /\ Done("DELETE", "/db/items/:id") => ~HasRow(db, http.req.id)
    /\ Done("DELETE", "/cache/:key") => ~HasRow(cache, http.req.id)
C9_DeleteReports == []C9_After /\ [][C9_Step]_vars

\* DELETE /db/items/i1 answered ok:false: no row had that id
C9_Witness ==
    /\ Done("DELETE", "/db/items/:id") /\ http.req.id = "i1"
    /\ http.body = Json([ok |-> FALSE])

\* C10: without a bucket a finished runSelfTest has issued no object-store call and
\* stored no object, reports s3 as {ok: false, error: "S3_BUCKET not configured"}, and
\* has run the relational and the cache sequence: db.ok and redis.ok are true exactly
\* when that store is reachable.
C10_Unconfigured ==
    \A r \in Runs :
        (st[r].pc = "done" /\ S3_BUCKET = "") =>
            /\ st[r].result.s3 = [ok |-> FALSE, error |-> "S3_BUCKET not configured"]
            /\ \A i \in 1..Len(st[r].calls) :
                   st[r].calls[i] \notin {"s3.put", "s3.get", "s3.delete"}
            /\ s3 = Empty
            /\ st[r].calls[1] = "db.create"
            /\ \E i \in 1..Len(st[r].calls) : st[r].calls[i] = "redis.set"
            /\ st[r].result.db.ok = up.db
            /\ st[r].result.redis.ok = up.redis

\* a run without a bucket finished with the database reachable and the cache not
C10_Witness ==
    \E r \in Runs :
        /\ st[r].pc = "done" /\ S3_BUCKET = ""
        /\ st[r].result.db.ok /\ ~up.redis /\ ~st[r].result.redis.ok


\* how start() moves from one position to the next
C11_Step ==
    /\ (phase' = "migrate" /\ phase # "migrate") =>
           phase = "waitpg" /\ up.db /\ attempt <= maxAttempts
    /\ (phase = "waitpg" /\ phase' = "waitpg" /\ attempt' # attempt) =>
           ~up.db /\ attempt' = attempt + 1
    /\ (phase' = "waits3" /\ phase # "waits3") => phase = "migrate" /\ up.db
    /\ (phase' = "listen" /\ phase # "listen") =>
           phase \in {"migrate", "waits3"} /\ (phase = "migrate" => up.db)
    /\ (phase' = "listening" /\ phase # "listening") => phase = "listen"
    /\ (phase' = "exited" /\ phase # "exited") =>
           /\ phase \in {"waitpg", "migrate"} /\ ~up.db
           /\ phase = "waitpg" => attempt = maxAttempts
    /\ phase = "exited" => phase' = "exited"

\* C11: start() probes the database at most 20 times; listening follows a successful
\* probe and a completed migrate; the process exits only from the database poll with
\* every probe failed (or from a failed migrate) and never listens afterwards; with
\* the database reachable the server comes to listen whatever the object store and
\* the cache do.
C11_StartupGate ==
    /\ [](phase = "waitpg" => attempt \in 1..20)
    /\ [][C11_Step]_vars
    /\ ([]up.db) => <>(phase = "listening")

\* the server listens with a bucket configured and the object store and the cache
\* unreachable
C11_Witness ==
    phase = "listening" /\ S3_BUCKET # "" /\ ~up.s3 /\ ~up.redis /\ rstatus = "wait"


\* the positions of a self-test run inside its cache sequence
InRedis(run) == run.pc \in {"rset", "rconnect", "rsetcmd", "rget", "rdel"}

\* no operation was refused by connect() because the client was already connecting
C12_NeverRefused ==
    /\ http.stage = "escaped" => http.body.error # AlreadyConnecting
    /\ \A r \in Runs :
           ~NoError(st[r].result.redis) => st[r].result.redis.error # AlreadyConnecting

\* connect() is called on an ended client only, and a cache operation fails only in
\* a step in which the cache is unreachable
C12_Step ==
    /\ (rstatus' = "connecting" /\ rstatus # "connecting") => rstatus = "end"
    /\ (http.req.path = "/cache/:key" /\ http.stage \in {"route", "connect", "command"}
            /\ http'.stage = "escaped") => ~up.redis
    /\ \A r \in Runs :
           (InRedis(st[r]) /\ st'[r].pc = "done" /\ ~st'[r].result.redis.ok) => ~up.redis
    /\ (rz.pc \in {"redis", "connect", "ping"} /\ rz'.pc = "done") => rz'.redisOk = up.redis

\* C12: under every interleaving of the /cache handlers, checkRedis and the cache
\* sequence of the self-test, an operation that finds the client ended reconnects, one
\* that finds it connecting issues its command on the connection being established,
\* and none is refused because another operation started to connect first.
C12_Reconnect == []C12_NeverRefused /\ [][C12_Step]_vars

\* the boot self-test still awaits its connect() while a /cache request that arrived
\* meanwhile has been answered over the connection
C12_Witness ==
    /\ st["boot"].pc = "rconnect" /\ rstatus = "ready"
    /\ Done("GET", "/cache/:key") /\ http.status \in {200, 404}


\* the positions of a self-test run inside its object sequence
InS3(run) == run.pc \in {"s3put", "s3get", "s3del"}

\* C13: two runSelfTest invocations that overlap never work on the same object key,
\* and with the stores reachable each of them reports s3.ok = true.
C13_UniqueKey ==
    /\ (InS3(st["boot"]) /\ InS3(st["http"])) => st["boot"].s3Key # st["http"].s3Key
    /\ \A r \in Runs : st[r].pc = "done" => st[r].result.s3.ok


\* how far a request and the /readyz handler have come
StageRank(stage) ==
    CASE stage = "route" -> 1
      [] stage \in {"connect", "readyz"} -> 2
      [] stage = "command" -> 3
      [] OTHER -> 4
ProbeRank(pc) ==
    CASE pc = "s3" -> 1 [] pc = "db" -> 2 [] pc = "redis" -> 3 [] pc = "connect" -> 4
      [] pc = "ping" -> 5 [] OTHER -> 6

\* while serving, a step of a handler moves it forward: no store call is issued again
C14_OnceWhileServing ==
    /\ (http' # http /\ http.stage \in {"route", "connect", "command", "readyz"}) =>
           (http'.req = http.req => StageRank(http'.stage) > StageRank(http.stage))
    /\ (rz' # rz /\ rz.pc \notin {"idle", "done"}) => ProbeRank(rz'.pc) > ProbeRank(rz.pc)

\* a failed probe is repeated by the polls named, at most 20 times
PollsOnlyIn(phases) ==
    (phase' = phase /\ attempt' # attempt) =>
        phase \in phases /\ attempt < 20 /\ attempt' = attempt + 1

\* C14 as stated: the poll of the database is the only retry.
C14_OnlyDbRetried == [][PollsOnlyIn({"waitpg"}) /\ C14_OnceWhileServing]_vars

\* C14, amended: start() repeats two probes, the database poll and the wait for the
\* bucket, each at most 20 times; every other store call of the application is issued
\* once and its failure is reported without the call being issued again.
C14_RetriesAtStartup == [][PollsOnlyIn({"waitpg", "waits3"}) /\ C14_OnceWhileServing]_vars

\* start() probes the bucket for the third time
C14_Witness == phase = "waits3" /\ attempt = 3 /\ ~up.s3


\* a populated slot: ok:true without an error, or ok:false with an error message
Populated(slot) ==
    /\ slot.ok \in BOOLEAN
    /\ IF slot.ok THEN NoError(slot) ELSE ~NoError(slot) /\ slot.error # ""

\* C15 (an identifier being left for randomUUID to return): a runSelfTest
\* invocation always has a next step until it returns, and it
\* returns a result whose three slots are populated; GET /selftest answers 200 with
\* that result, never 500 and never without a response.
C15_AlwaysResolves ==
    /\ \A r \in Runs :
        /\ (Running /\ st[r].pc \notin {"idle", "done", "logged"}
                /\ \E u \in Uuids : FreshId(u) /\ FreshKey(u)) =>
               ENABLED (SelfTestStep(r) \/ RedisConnect(r) \/ RedisConnected(r))
        /\ st[r].pc = "done" => \A s \in Stores : Populated(st[r].result[s])
    /\ (http.req.path = "/selftest" /\ http.stage \in {"done", "escaped"}
            /\ http.status # 401) =>
           /\ http.stage = "done" /\ http.status = 200
           /\ \A s \in Stores : Populated(http.body.json[s])

\* GET /selftest answered 200 with every slot ok:false
C15_Witness ==
    /\ Done("GET", "/selftest") /\ http.status = 200
    /\ \A s \in Stores : ~http.body.json[s].ok


\* the sequence a store call belongs to: 1 object, 2 relational, 3 cache
SequenceOf(call) ==
    CASE call \in {"s3.put", "s3.get", "s3.delete"} -> 1
      [] call \in {"db.create", "db.get", "db.update", "db.delete"} -> 2
      [] OTHER -> 3
Called(run, k) == \E i \in 1..Len(run.calls) : SequenceOf(run.calls[i]) = k

\* the calls of a run are in the order of the sequences, and a sequence has its slot
\* final (ok:true, or ok:false with its error) before a call of the next is issued
C16_Ordered ==
    \A r \in Runs :
        /\ \A i, j \in 1..Len(st[r].calls) :
               i < j => SequenceOf(st[r].calls[i]) <= SequenceOf(st[r].calls[j])
        /\ Called(st[r], 2) => Populated(st[r].result.s3)
        /\ Called(st[r], 3) => Populated(st[r].result.s3) /\ Populated(st[r].result.db)
        /\ st[r].pc = "done" => Called(st[r], 2) /\ Called(st[r], 3)

\* once a later sequence has begun, the slot of an earlier one does not change
C16_Settled ==
    \A r \in Runs :
        /\ (Called(st[r], 2) /\ st'[r].pc \notin {"idle", "logged"}) =>
               st'[r].result.s3 = st[r].result.s3
        /\ (Called(st[r], 3) /\ st'[r].pc \notin {"idle", "logged"}) =>
               st'[r].result.db = st[r].result.db

\* C16: within one runSelfTest invocation the object sequence, the relational
\* sequence and the cache sequence run one after the other, in that order.
C16_SequenceOrder == []C16_Ordered /\ [][C16_Settled]_vars

\* a run whose object sequence failed at the get and whose relational sequence failed
\* at the get is in its cache sequence
C16_Witness ==
    st["http"].calls = <<"s3.put", "s3.get", "db.create", "db.get", "redis.set", "redis.get">>


\* the relational calls a run has issued, in order
DbCalls(run) == SelectSeq(run.calls, LAMBDA c : SequenceOf(c) = 2)
CrudOrder == <<"db.create", "db.get", "db.update", "db.delete">>

\* the calls are create, get, update, delete, one each in that order; the error of
\* the read ("db get failed" in the code) ends the sequence after the get, the error
\* of the delete ("db delete failed") after the delete, and ok:true needs all four
C17_Sequence ==
    \A r \in Runs :
        LET calls == DbCalls(st[r])
            slot == st[r].result.db
        IN /\ Len(calls) <= 4 /\ calls = SubSeq(CrudOrder, 1, Len(calls))
           /\ (~NoError(slot) /\ slot.error = "db get failed") =>
                  ~slot.ok /\ calls = SubSeq(CrudOrder, 1, 2)
           /\ (~NoError(slot) /\ slot.error = "db delete failed") =>
                  ~slot.ok /\ calls = CrudOrder
           /\ slot.ok => calls = CrudOrder /\ slot.id = st[r].id

\* every call is on the identifier generated for the run; a read that finds no row
\* and a delete that removes none fail the sequence then and there
C17_Step ==
    \A r \in Runs :
        LET run == st[r]
            absent == up.db /\ run.id \notin DOMAIN db
        IN /\ (Called(run, 2) /\ st'[r].pc \notin {"idle", "logged"}) => st'[r].id = run.id
           /\ (run.pc = "dbcreate" /\ db' # db) =>
                  run.id \notin DOMAIN db /\ DOMAIN db' = DOMAIN db \cup {run.id}
           /\ (run.pc = "dbget" /\ st'[r] # run /\ absent) =>
                  st'[r].result.db = [ok |-> FALSE, error |-> "db get failed"]
                  /\ DbCalls(st'[r]) = DbCalls(run) /\ db' = db
           /\ (run.pc = "dbdelete" /\ st'[r] # run /\ absent) =>
                  st'[r].result.db = [ok |-> FALSE, error |-> "db delete failed"]
                  /\ db' = db

\* C17: the relational sequence of the self-test creates, reads, updates and deletes
\* one freshly generated id in that order; a read that finds no row and a delete that
\* affects no row each fail the sequence with their error, db.ok is false and no
\* later step of the sequence runs.
C17_DbSequence == []C17_Sequence /\ [][C17_Step]_vars

\* the read found no row: the row was deleted over HTTP after the create
C17_Witness ==
    /\ st["boot"].result.db = [ok |-> FALSE, error |-> "db get failed"]
    /\ DbCalls(st["boot"]) = <<"db.create", "db.get">>


\* C18: outside a checkDb call no client is checked out, and the pool always has a
\* client left.
C18_ClientsReleased ==
    /\ (phase # "waitpgquery" /\ rz.pc # "dbquery") => pool = 0
    /\ pool < poolMax


\* C19: when a self-test call has returned with ok:true for a store, whatever it wrote
\* there is gone: its object key is not in the bucket, its row is not in the table and
\* its key is not in the cache.
C19_CleanedUp ==
    \A r \in Runs :
        st[r].pc \in {"done", "logged"} =>
            /\ st[r].result.s3.ok => st[r].s3Key \notin DOMAIN s3
            /\ st[r].result.db.ok => st[r].id \notin DOMAIN db
            /\ st[r].result.redis.ok => st[r].rKey \notin DOMAIN cache


\* C20: reading an object never throws.  GET /s3/:id with a bucket configured answers
\* 200 or 404 and never 500 or no answer; when the store cannot be reached it answers
\* 404 'Not found', exactly as when the object is missing.  A self-test whose get step
\* finds the store unreachable records 's3 content mismatch'.
C20_GetAnswers ==
    (Done("GET", "/s3/:id") \/ (http.stage = "escaped" /\ http.req.path = "/s3/:id"
                                                     /\ http.req.method = "GET"))
        => /\ http.stage = "done"
           /\ http.status \in {200, 400, 404}
           /\ http.status = 400 <=> S3_BUCKET = ""
C20_Step ==
    /\ (Route("GET", "/s3/:id") /\ http'.stage # "route" /\ S3_BUCKET # ""
           /\ (~up.s3 \/ S3Key(http.req.id) \notin DOMAIN s3))
        => http' = Sent(http, 404, ErrorBody("Not found"))
    /\ \A r \in Runs :
          (st[r].pc = "s3get" /\ st'[r].pc # "s3get" /\ ~up.s3)
          => /\ st'[r].result.s3 = [ok |-> FALSE, bucket |-> S3_BUCKET, key |-> st[r].s3Key,
                                     error |-> "s3 content mismatch"]
             /\ st'[r].pc = "dbcreate"
C20_GetNeverThrows == []C20_GetAnswers /\ [][C20_Step]_vars

\* C20 witness: with the store unreachable and both objects still in the bucket, GET
\* /s3/banana was answered 404 and the boot self-test recorded a content mismatch
C20_Witness ==
    /\ ~up.s3
    /\ Done("GET", "/s3/:id") /\ http.status = 404
    /\ S3Key(http.req.id) \in DOMAIN s3
    /\ st["boot"].result.s3 = [ok |-> FALSE, bucket |-> S3_BUCKET, key |-> st["boot"].s3Key,
                               error |-> "s3 content mismatch"]
    /\ st["boot"].s3Key \in DOMAIN s3

====
